---- MODULE Spec2Model ----
(***************************************************************************)
(* A model of the genetic_algorithm crate: the generational engine         *)
(* (GeneticAlgorithm: start / evaluate / breed, lib.rs), tournament        *)
(* selection (RankBasedSelector, selection.rs) and the binary operators    *)
(* (BinaryBitMutation, BinaryNPointBitCrossover, binary.rs), configured as *)
(* MyEvolutionConfig of main.rs.                                           *)
(*                                                                         *)
(* Option<T> is a sequence of length 0 (None) or 1 (Some(x)).  A BitVec is *)
(* a sequence of BOOLEAN; Rust's 0-based index j is position j + 1.        *)
(* Every random draw of the code is an existentially chosen input.         *)
(***************************************************************************)
EXTENDS Integers, Sequences, FiniteSets, TLC

VARIABLES
    pop_size,     \* GeneticAlgorithm.pop_size
    group_size,   \* RankBasedSelection.group_size of GeneticAlgorithm.selection
    population,   \* GeneticAlgorithm.population : Option<Population>
    pc,           \* position of the caller: "idle", "breeding" (inside breed()), "failed" (panicked)
    selector,     \* breed()'s local selector: Option of the snapshot it owns
    next_pop,     \* breed()'s local population under construction
    nextId,       \* number of Individual instances created so far (instance identity)
    evalCount,    \* per live instance: calls of EvolutionConfig.evaluate made for it
    lastOp,       \* the engine operation called last
    prevOp,       \* the engine operation called before that
    firstOp,      \* the first engine operation called
    lastChild,    \* the latest child of the latest breed(): "clone" (an unmutated clone), "made"
    tour,         \* one RankBasedSelector.select() call: inputs, draws, result
    xo,           \* one BinaryNPointBitCrossover.recombine() call: inputs, draws, result
    pass,         \* one BinaryBitMutation.mutate() call: inputs, draws, result
    fill          \* one Population.populate() call: inputs, factory results, result

engineVars == <<pop_size, group_size, population, pc, selector, next_pop, nextId,
                evalCount, lastOp, prevOp, firstOp, lastChild>>
vars == <<pop_size, group_size, population, pc, selector, next_pop, nextId,
          evalCount, lastOp, prevOp, firstOp, lastChild, tour, xo, pass, fill>>

(***************************************************************************)
(* Bounds of the model                                                     *)
(***************************************************************************)
\* largest configured pop_size
MaxPop == 2
\* bits per chromosome made by the engine's factory (main.rs uses 32)
ChromLen == 3
\* Individual instances one run may create
MaxInd == 4
\* largest snapshot handed to a selector checked on its own
MaxSnap == 3
\* largest group size of a selector checked on its own
MaxTour == 3
\* largest known fitness of a selector checked on its own
MaxFit == 2
\* longest parent handed to recombine checked on its own
MaxBits == 3
\* largest point count n handed to recombine checked on its own
MaxPoints == 3
\* largest size handed to populate checked on its own
MaxSize == 4

(***************************************************************************)
(* Option, and small helpers                                               *)
(***************************************************************************)
None == <<>>
Some(x) == <<x>>
IsSome(o) == o # None
Unwrap(o) == o[1]

Min(a, b) == IF a < b THEN a ELSE b
Max(a, b) == IF a > b THEN a ELSE b

\* BitVec values of a given length
BitStrings(n) == [1..n -> BOOLEAN]


(***************************************************************************)
(* Fitness: an f32, modelled as the exact quotient num/den (den > 0) that  *)
(* the cast-and-divide of MyEvolutionConfig.evaluate rounds; rounding is   *)
(* monotone and keeps the quotients of small integers apart.               *)
(***************************************************************************)
Frac(n, d) == [num |-> n, den |-> d]
FitGreater(x, y) == x.num * y.den > y.num * x.den

\* number of set bits: subject.bits.iter().filter(|x| *x).count()
RECURSIVE Ones(_)
Ones(bits) ==
    IF bits = <<>> THEN 0
    ELSE (IF Head(bits) THEN 1 ELSE 0) + Ones(Tail(bits))

\* MyEvolutionConfig::evaluate: count of ones as f32 / length as f32
ConfigEvaluate(bits) == Frac(Ones(bits), Len(bits))

\* `>` of Option<f32> (derived PartialOrd: None < Some(_), Some by value)
OptGreaterNonStrict(a, b) ==
    IF a = None THEN b = None
    ELSE IF b = None THEN TRUE
    ELSE ~FitGreater(Unwrap(b), Unwrap(a))
OptGreaterNoneHigh(a, b) ==
    IF b = None THEN FALSE
    ELSE IF a = None THEN TRUE
    ELSE FitGreater(Unwrap(a), Unwrap(b))
OptGreaterReversed(a, b) ==
    IF a = None THEN FALSE
    ELSE IF b = None THEN TRUE
    ELSE FitGreater(Unwrap(b), Unwrap(a))
OptGreater(a, b) ==
    IF a = None THEN FALSE
    ELSE IF b = None THEN TRUE
    ELSE FitGreater(Unwrap(a), Unwrap(b))

(***************************************************************************)
(* Individual and Population (lib.rs)                                      *)
(***************************************************************************)
\* Individual::new: a new instance (identity id) with fitness None
IndividualNew(id, chromosome) ==
    [id |-> id, chromosome |-> chromosome, fitness |-> None]

\* Population::with_capacity: no individuals
WithCapacity == <<>>

\* Population::add
Add(individuals, individual) == Append(individuals, individual)

\* Population::populate: push factory-made individuals while len < size;
\* chroms are the factory's results in call order, id0 the instances made before
RECURSIVE PopulateResizing(_, _, _, _)
PopulateResizing(individuals, size, chroms, id0) ==
    IF Len(individuals) < size
    THEN PopulateResizing(Add(individuals, IndividualNew(id0 + 1, Head(chroms))),
                          size, Tail(chroms), id0 + 1)
    ELSE SubSeq(individuals, 1, size)
RECURSIVE Populate(_, _, _, _)
Populate(individuals, size, chroms, id0) ==
    IF Len(individuals) < size
    THEN Populate(Add(individuals, IndividualNew(id0 + 1, Head(chroms))),
                  size, Tail(chroms), id0 + 1)
    ELSE individuals

\* factory calls populate makes
PopulateCalls(individuals, size) == Max(0, size - Len(individuals))

(***************************************************************************)
(* RankBasedSelector (selection.rs).  A draw is the value of               *)
(* gen_range(0..len); select returns a reference, modelled as the 0-based  *)
(* index of the referenced individual in the snapshot.                     *)
(***************************************************************************)
\* select_one: individuals.get(draw).unwrap()
SelectOne(individuals, draw) == individuals[draw + 1]

\* draws one select() call makes: one, then one per iteration of 1..group_size
SelectDraws(g) == Max(1, g)

\* the loop `for _ in 1..group_size`: k is the loop counter, bests the value
\* of `best` after the first sample and after each iteration so far
RECURSIVE SelectLoop(_, _, _, _, _)
SelectLoop(individuals, g, draws, k, bests) ==
    IF k >= g THEN bests
    ELSE LET best == bests[Len(bests)]
             other == draws[k + 1]
         IN SelectLoop(individuals, g, draws, k + 1,
                Append(bests,
                    IF OptGreater(SelectOne(individuals, other).fitness,
                                  SelectOne(individuals, best).fitness)
                    THEN other ELSE best))

\* select: panics when the snapshot is empty (gen_range on an empty range)
SelectCountingDown(individuals, g, draws) ==
    IF Len(individuals) = 0 \/ g = 0
    THEN [panic |-> TRUE, bests |-> <<>>, index |-> 0]
    ELSE LET bests == SelectLoop(individuals, g, draws, 1, <<draws[1]>>)
         IN [panic |-> FALSE, bests |-> bests, index |-> bests[Len(bests)]]
Select(individuals, g, draws) ==
    IF Len(individuals) = 0
    THEN [panic |-> TRUE, bests |-> <<>>, index |-> 0]
    ELSE LET bests == SelectLoop(individuals, g, draws, 1, <<draws[1]>>)
         IN [panic |-> FALSE, bests |-> bests, index |-> bests[Len(bests)]]

\* the draw sequences of one select() call on a snapshot of n individuals
DrawSeqs(n, g) == [1..SelectDraws(g) -> 0..(n - 1)]

(***************************************************************************)
(* BinaryBitMutation::mutate (binary.rs).  An offset is the value of       *)
(* (num / denom) as usize; Saturated stands for usize::MAX, the value the  *)
(* cast saturates to.  `i += offset` on usize overflows when the sum       *)
(* exceeds usize::MAX: a build with overflow checks (debug) panics, one    *)
(* without (release) wraps; wraps tells which build runs.                  *)
(***************************************************************************)
Saturated == -1

\* target.bits.set(i, !target.bits.get(i).unwrap())
FlipBit(bits, i) == [bits EXCEPT ![i + 1] = ~bits[i + 1]]

\* whether i + offset exceeds usize::MAX: only a saturated offset is large
\* enough, added to a cursor past 0
Overflows(i, offset) == offset = Saturated /\ i > 0

\* the value of i after `i += offset`, wrapped modulo 2^64 when it overflows
AddOffset(i, offset) ==
    IF offset = Saturated
    THEN (IF i = 0 THEN Saturated ELSE i - 1)
    ELSE i + offset

\* `i += 1` after a flip
AfterFlipStaying(i) == i
AfterFlip(i) == i + 1

\* `if i >= target.bits.len() { return; }`
PastEnd(i, len) == i = Saturated \/ i >= len

\* the loop of mutate from cursor i: the bits, the flipped indices in order,
\* and how `i += offset` went: "none" (never overflowed), "panic" (overflowed
\* under overflow checks: the pass ends in a panic), "wrap" (overflowed and
\* wrapped); index is "bad" when bits.get(i) was None at the flip
RECURSIVE MutateLoop(_, _, _, _, _, _)
MutateLoop(bits, i, offsets, flips, wraps, overflow) ==
    LET offset == Head(offsets)
        sum == AddOffset(i, offset)
    IN IF Overflows(i, offset) /\ ~wraps
       THEN [bits |-> bits, flips |-> flips, overflow |-> "panic", index |-> "ok"]
       ELSE IF PastEnd(sum, Len(bits))
       THEN [bits |-> bits, flips |-> flips, overflow |-> overflow, index |-> "ok"]
       ELSE IF sum >= Len(bits)
       THEN [bits |-> bits, flips |-> Append(flips, sum), overflow |-> overflow,
             index |-> "bad"]
       ELSE MutateLoop(FlipBit(bits, sum), AfterFlip(sum), Tail(offsets), Append(flips, sum),
                       wraps, IF Overflows(i, offset) THEN "wrap" ELSE overflow)

Mutate(bits, offsets, wraps) == MutateLoop(bits, 0, offsets, <<>>, wraps, "none")

\* draws one pass can consume when no addition wraps: one per flip and the
\* one that ends it
MutateDraws(len) == len + 1

\* whether a pass over len bits, its cursor at i, draws exactly these
\* offsets: the last one ends the pass, each of the others flips a bit
RECURSIVE ExactRun(_, _, _, _)
ExactRun(len, i, offsets, wraps) ==
    IF offsets = <<>> THEN FALSE
    ELSE LET offset == Head(offsets)
             sum == AddOffset(i, offset)
         IN IF (Overflows(i, offset) /\ ~wraps) \/ PastEnd(sum, len)
            THEN Tail(offsets) = <<>>
            ELSE ExactRun(len, AfterFlip(sum), Tail(offsets), wraps)

\* the offset sequences of at most most draws that one pass over len bits
\* can draw from the values on offer
PassOffsets(len, values, wraps, most) ==
    {s \in UNION {[1..k -> values] : k \in 1..most} : ExactRun(len, 0, s, wraps)}

\* the same, for offsets that never saturate
OffsetSeqs(len, values) == PassOffsets(len, values, FALSE, MutateDraws(len))

(***************************************************************************)
(* BinaryNPointBitCrossover::recombine (binary.rs).  A draw is the value   *)
(* of gen_range(1..range).                                                 *)
(***************************************************************************)
\* sort_unstable on usize values: ascending
RECURSIVE Insert(_, _)
Insert(sorted, x) ==
    IF sorted = <<>> THEN <<x>>
    ELSE IF x <= Head(sorted) THEN <<x>> \o sorted
    ELSE <<Head(sorted)>> \o Insert(Tail(sorted), x)

RECURSIVE SortUnstable(_)
SortUnstable(points) ==
    IF points = <<>> THEN <<>>
    ELSE Insert(SortUnstable(Tail(points)), Head(points))

\* for j in from..to { child.bits.set(j, parent2.bits.get(j).unwrap()) }:
\* get(j) is None at j >= len(parent2) and the unwrap panics
RECURSIVE CopySegmentInclusive(_, _, _, _)
CopySegmentInclusive(child, parent2, j, to) ==
    IF j > to \/ j >= Len(parent2) THEN [panic |-> FALSE, child |-> child]
    ELSE CopySegmentInclusive([child EXCEPT ![j + 1] = parent2[j + 1]], parent2, j + 1, to)
RECURSIVE CopySegment(_, _, _, _)
CopySegment(child, parent2, j, to) ==
    IF j >= to THEN [panic |-> FALSE, child |-> child]
    ELSE IF j >= Len(parent2) THEN [panic |-> TRUE, child |-> child]
    ELSE CopySegment([child EXCEPT ![j + 1] = parent2[j + 1]], parent2, j + 1, to)

\* for i in 0..points.len() / 2: copy [points[2i], points[2i + 1]) from parent 2
RECURSIVE CopyPairs(_, _, _, _)
CopyPairs(child, parent2, points, i) ==
    IF i >= Len(points) \div 2 THEN [panic |-> FALSE, child |-> child]
    ELSE LET from == points[i * 2 + 1]
             to == points[i * 2 + 2]
             seg == CopySegment(child, parent2, from, to)
         IN IF seg.panic THEN seg
            ELSE CopyPairs(seg.child, parent2, points, i + 1)

\* the range the points are drawn from
Range(parent1, parent2) == Min(Len(parent1), Len(parent2))

\* the draw sequences of one recombine call; none when gen_range(1..range)
\* is called on an empty range
PointSeqs(n, range) == [1..n -> 1..(range - 1)]

\* the point list after sorting and, for odd n, appending len(parent1)
Points(parent1, n, draws) ==
    LET sorted == SortUnstable(draws)
    IN IF n % 2 = 1 THEN Append(sorted, Len(parent1)) ELSE sorted

\* recombine: panics when a point is drawn from an empty range (n > 0 and
\* range <= 1) and when a copied index is outside parent 2
RecombineRangeChecked(parent1, parent2, n, draws) ==
    IF Range(parent1, parent2) <= 1
    THEN [panic |-> TRUE, child |-> <<>>]
    ELSE CopyPairs(parent1, parent2, Points(parent1, n, draws), 0)
Recombine(parent1, parent2, n, draws) ==
    IF n > 0 /\ Range(parent1, parent2) <= 1
    THEN [panic |-> TRUE, child |-> <<>>]
    ELSE CopyPairs(parent1, parent2, Points(parent1, n, draws), 0)

(***************************************************************************)
(* MyEvolutionConfig (main.rs): BinaryChromosome::new(ChromLen),           *)
(* BinaryBitMutation::new(0.05), BinaryNPointBitCrossover::new(2)          *)
(***************************************************************************)
\* the n of BinaryNPointBitCrossover::new(2)
ConfigPoints == 2

\* the group size of RankBasedSelection::new(2), the engine's selection
ConfigGroup == 2

\* create(): every bit is rand::random()
ConfigCreate == BitStrings(ChromLen)

\* the offsets one mutate pass can draw.  With mutate_prob 0.05 the quotient
\* ln(1 - u) / ln(0.95) of an f32 u in [0, 1) is at most 324 and never
\* saturates; an offset that reaches the end of the chromosome ends the pass
\* whatever its size, so the offsets at least ChromLen are drawn as ChromLen.
ConfigOffsetSeqs == OffsetSeqs(ChromLen, 0..ChromLen)

\* mutate(): the chromosomes a pass can leave, per chromosome, over all draws
\* (the comparison makes TLC tabulate the function once)
ConfigMutate ==
    LET table == [c \in ConfigCreate |->
                    {Mutate(c, offsets, FALSE).bits : offsets \in ConfigOffsetSeqs}]
    IN IF table = table THEN table ELSE table

\* recombine(): the outcomes per pair of parents, over all draws (tabulated)
ConfigRecombine ==
    LET table == [p \in ConfigCreate \X ConfigCreate |->
                    {Recombine(p[1], p[2], ConfigPoints, draws) :
                        draws \in PointSeqs(ConfigPoints, Range(p[1], p[2]))}]
    IN IF table = table THEN table ELSE table

(***************************************************************************)
(* GeneticAlgorithm (lib.rs)                                               *)
(***************************************************************************)
\* lastChild before breed() has made a child
NoChild == "none"

\* bookkeeping of the calls made on the engine
OpCalled(op) ==
    /\ lastOp' = op
    /\ prevOp' = lastOp
    /\ firstOp' = IF firstOp = "none" THEN op ELSE firstOp

\* the instances (ids) of a sequence of individuals, of an Option<Population>
IdsOf(individuals) == {individuals[k].id : k \in 1..Len(individuals)}
Ids(pop) == IF pop = None THEN {} ELSE IdsOf(Unwrap(pop))

\* the call counts kept for the instances that are alive; a new instance
\* starts at no calls, a dropped one is forgotten
LiveCounts(counts, ids) ==
    [id \in ids |-> IF id \in DOMAIN counts THEN counts[id] ELSE 0]

\* the population start() builds: a new one, populated by the factory
StartPopulationReuse(old, size, chroms, id0) ==
    Populate(IF old = None THEN WithCapacity ELSE Unwrap(old), size, chroms, id0)
StartPopulation(old, size, chroms, id0) ==
    Populate(WithCapacity, size, chroms, id0)

\* GeneticAlgorithm::new
Init ==
    /\ pop_size \in 0..MaxPop
    /\ group_size = ConfigGroup
    /\ population = None
    /\ pc = "idle"
    /\ selector = None
    /\ next_pop = <<>>
    /\ nextId = 0
    /\ evalCount = LiveCounts(<<>>, {})
    /\ lastOp = "none"
    /\ prevOp = "none"
    /\ firstOp = "none"
    /\ lastChild = NoChild
    /\ tour = [called |-> FALSE]
    /\ xo = [called |-> FALSE]
    /\ pass = [called |-> FALSE]
    /\ fill = [called |-> FALSE]

\* GeneticAlgorithm::start
Start ==
    /\ pc = "idle"
    /\ nextId + pop_size <= MaxInd
    /\ \E chroms \in [1..PopulateCalls(WithCapacity, pop_size) -> ConfigCreate] :
         population' = Some(StartPopulation(population, pop_size, chroms, nextId))
    /\ evalCount' = LiveCounts(evalCount, Ids(population'))
    /\ nextId' = nextId + PopulateCalls(WithCapacity, pop_size)
    /\ OpCalled("start")
    /\ lastChild' = NoChild
    /\ UNCHANGED <<pop_size, group_size, pc, selector, next_pop, tour, xo, pass, fill>>

\* `if let None = indiv.fitness`
NeedsEvaluationAlways(indiv) == TRUE
NeedsEvaluation(indiv) == indiv.fitness = None

\* the fitness evaluate() stores for an individual it evaluates
EvaluatedFitnessOfFirst(individuals, k) == ConfigEvaluate(individuals[1].chromosome)
EvaluatedFitness(individuals, k) == ConfigEvaluate(individuals[k].chromosome)

\* `for indiv in population.iter_mut()`: the individuals and the calls of
\* config.evaluate after the iterations from position k on
RECURSIVE EvaluateLoop(_, _, _)
EvaluateLoop(individuals, counts, k) ==
    IF k > Len(individuals) THEN [individuals |-> individuals, counts |-> counts]
    ELSE IF NeedsEvaluation(individuals[k])
    THEN EvaluateLoop(
            [individuals EXCEPT ![k].fitness = Some(EvaluatedFitness(individuals, k))],
            [counts EXCEPT ![individuals[k].id] = @ + 1],
            k + 1)
    ELSE EvaluateLoop(individuals, counts, k + 1)

\* `if let Some(population) = &mut self.population { ... }`: the population
\* and the call counts after evaluate(); nothing is done on None
EvaluatedOrEmpty(pop, counts) ==
    LET done == EvaluateLoop(IF IsSome(pop) THEN Unwrap(pop) ELSE WithCapacity, counts, 1)
    IN [population |-> Some(done.individuals), counts |-> done.counts]
Evaluated(pop, counts) ==
    IF IsSome(pop)
    THEN LET done == EvaluateLoop(Unwrap(pop), counts, 1)
         IN [population |-> Some(done.individuals), counts |-> done.counts]
    ELSE [population |-> pop, counts |-> counts]

\* GeneticAlgorithm::evaluate
Evaluate ==
    /\ pc = "idle"
    /\ population' = Evaluated(population, evalCount).population
    /\ evalCount' = Evaluated(population, evalCount).counts
    /\ OpCalled("evaluate")
    /\ UNCHANGED <<pop_size, group_size, pc, selector, next_pop, nextId, lastChild,
                   tour, xo, pass, fill>>

\* old_population.unwrap(): panics on None
UnwrapOrDefault(o) ==
    [panic |-> FALSE, value |-> IF o = None THEN WithCapacity ELSE Unwrap(o)]
UnwrapOutcome(o) ==
    [panic |-> o = None, value |-> IF o = None THEN WithCapacity ELSE Unwrap(o)]

\* breed() up to its loop: take the population, unwrap it, hand it to the
\* selection factory, make the empty next population
BreedBegin ==
    /\ pc = "idle"
    /\ nextId + pop_size <= MaxInd
    /\ population' = None
    /\ LET old == UnwrapOutcome(population)
       IN IF old.panic
          THEN /\ pc' = "failed"
               /\ UNCHANGED <<selector, next_pop>>
          ELSE /\ pc' = "breeding"
               /\ selector' = Some(old.value)
               /\ next_pop' = WithCapacity
    /\ OpCalled("breed")
    /\ lastChild' = NoChild
    /\ UNCHANGED <<pop_size, group_size, nextId, evalCount, tour, xo, pass, fill>>

\* `while population.size() < self.pop_size`
BreedContinuesInclusive(size, target) == size <= target
BreedContinuesOnceAtLeast(size, target) == size < Max(1, target)
BreedContinues(size, target) == size < target

\* the individuals (indices) select() can return, over all its draws
Selections(snapshot, g) ==
    {Select(snapshot, g, draws).index : draws \in DrawSeqs(Len(snapshot), g)}

\* the results of one iteration of breed()'s loop, over all its draws: the
\* chromosome is recombined from two selected parents or cloned from one,
\* then mutated or not.  how is "clone" for an unmutated clone; parent is the
\* selected individual whose chromosome was cloned (by breed(), or by
\* recombine as parent 1).
Children(snapshot, g) ==
    LET chrom(index) == snapshot[index + 1].chromosome
        selected == Selections(snapshot, g)
        recombined(p1) ==
            UNION {ConfigRecombine[<<chrom(p1), chrom(p2)>>] : p2 \in selected}
        made(p1) ==
            {<<TRUE, <<>>, "made">> : r \in {x \in recombined(p1) : x.panic}}
            \cup UNION {{<<FALSE, bits, "made">> :
                           bits \in ConfigMutate[r.child] \cup {r.child}} :
                        r \in {x \in recombined(p1) : ~x.panic}}
            \cup {<<FALSE, bits, "made">> : bits \in ConfigMutate[chrom(p1)]}
            \cup {<<FALSE, chrom(p1), "clone">>}
    IN  UNION {{[panic |-> c[1], bits |-> c[2], how |-> c[3], parent |-> p1] :
                  c \in made(p1)} : p1 \in selected}

\* the snapshot after one iteration: the operators worked on a clone of the
\* parent's chromosome (`*(indiv.chromosome).clone()`, `parent1.clone()`), so
\* the parent is as it was
KeptSharingChromosome(snapshot, parent, bits) ==
    [snapshot EXCEPT ![parent + 1].chromosome = bits]
Kept(snapshot, parent, bits) == snapshot

\* Individual::new(chromosome) for the child c of an iteration: a new
\* instance of unknown fitness, whatever the parent's fitness is
ChildKeepingFitness(id, c, snapshot) ==
    [IndividualNew(id, c.bits) EXCEPT
        !.fitness = IF c.how = "clone" THEN snapshot[c.parent + 1].fitness ELSE None]
ChildOf(id, c, snapshot) == IndividualNew(id, c.bits)

\* one iteration of breed()'s loop: a child is made and added
BreedChild ==
    /\ pc = "breeding"
    /\ BreedContinues(Len(next_pop), pop_size)
    /\ IF Len(Unwrap(selector)) = 0
       THEN \* selector.select() panics: breed() unwinds, its locals are dropped
            /\ pc' = "failed"
            /\ selector' = None
            /\ next_pop' = <<>>
            /\ evalCount' = LiveCounts(evalCount, {})
            /\ UNCHANGED <<nextId, lastChild>>
       ELSE \E c \in Children(Unwrap(selector), group_size) :
              IF c.panic
              THEN \* config.recombine panics
                   /\ pc' = "failed"
                   /\ selector' = None
                   /\ next_pop' = <<>>
                   /\ evalCount' = LiveCounts(evalCount, {})
                   /\ UNCHANGED <<nextId, lastChild>>
              ELSE /\ next_pop' = Add(next_pop, ChildOf(nextId + 1, c, Unwrap(selector)))
                   /\ nextId' = nextId + 1
                   /\ evalCount' = LiveCounts(evalCount,
                                      IdsOf(Unwrap(selector)) \cup IdsOf(next_pop'))
                   /\ lastChild' = c.how
                   /\ selector' = Some(Kept(Unwrap(selector), c.parent, c.bits))
                   /\ UNCHANGED pc
    /\ UNCHANGED <<pop_size, group_size, population, lastOp, prevOp, firstOp,
                   tour, xo, pass, fill>>

\* the population breed() installs
InstalledOld(new, old) == old
Installed(new, old) == new

\* breed() after its loop: self.population = Some(population); the selector
\* and the snapshot it owns are dropped
BreedEnd ==
    /\ pc = "breeding"
    /\ ~BreedContinues(Len(next_pop), pop_size)
    /\ population' = Some(Installed(next_pop, Unwrap(selector)))
    /\ selector' = None
    /\ next_pop' = <<>>
    /\ pc' = "idle"
    /\ evalCount' = LiveCounts(evalCount, Ids(population'))
    /\ UNCHANGED <<pop_size, group_size, nextId, lastOp, prevOp, firstOp,
                   lastChild, tour, xo, pass, fill>>

Next == Start \/ Evaluate \/ BreedBegin \/ BreedChild \/ BreedEnd

Spec == Init /\ [][Next]_vars

(***************************************************************************)
(* RankBasedSelector.select() on its own: any snapshot, any group size,    *)
(* any draws.  The engine is left as constructed.                          *)
(***************************************************************************)
\* the fitness values of the snapshots: unknown, or one of a few reals
Fitnesses == {None} \cup {Some(Frac(f, 1)) : f \in 0..MaxFit}

\* the snapshot whose k-th individual has the k-th fitness
Snapshot(fits) ==
    [k \in 1..Len(fits) |-> [IndividualNew(k, <<>>) EXCEPT !.fitness = fits[k]]]

EngineIdle ==
    /\ pop_size = 0
    /\ group_size = ConfigGroup
    /\ population = None
    /\ pc = "idle"
    /\ selector = None
    /\ next_pop = <<>>
    /\ nextId = 0
    /\ evalCount = LiveCounts(<<>>, {})
    /\ lastOp = "none"
    /\ prevOp = "none"
    /\ firstOp = "none"
    /\ lastChild = NoChild

\* RankBasedSelection::new(g).select_from(population)
InitSelect ==
    /\ EngineIdle
    /\ \E n \in 0..MaxSnap, g \in 0..MaxTour :
         \E fits \in [1..n -> Fitnesses] :
           tour = [called |-> FALSE, individuals |-> Snapshot(fits), group_size |-> g,
                   draws |-> <<>>, panic |-> FALSE, bests |-> <<>>, index |-> 0]
    /\ xo = [called |-> FALSE]
    /\ pass = [called |-> FALSE]
    /\ fill = [called |-> FALSE]

\* the call of select() on the selector built: the draws of gen_range are
\* chosen, none is made on an empty snapshot
SelectCall ==
    /\ ~tour.called
    /\ \E draws \in (IF Len(tour.individuals) = 0 THEN {<<>>}
                     ELSE DrawSeqs(Len(tour.individuals), tour.group_size)) :
         LET r == Select(tour.individuals, tour.group_size, draws)
         IN tour' = [tour EXCEPT !.called = TRUE, !.draws = draws, !.panic = r.panic,
                                 !.bests = r.bests, !.index = r.index]
    /\ UNCHANGED <<engineVars, xo, pass, fill>>

NextSelect == SelectCall

SpecSelect == InitSelect /\ [][NextSelect]_vars

(***************************************************************************)
(* BinaryNPointBitCrossover::recombine on its own: any two parents, any    *)
(* point count, any draws.                                                 *)
(***************************************************************************)
\* the bit vectors of up to MaxBits bits
Parents == UNION {BitStrings(len) : len \in 0..MaxBits}

InitRecombine ==
    /\ EngineIdle
    /\ tour = [called |-> FALSE]
    /\ pass = [called |-> FALSE]
    /\ fill = [called |-> FALSE]
    /\ \E parent1 \in Parents, parent2 \in Parents, n \in 0..MaxPoints :
         xo = [called |-> FALSE, parent1 |-> parent1, parent2 |-> parent2, n |-> n,
               draws |-> <<>>, panic |-> FALSE, child |-> <<>>]

\* the call of recombine() on the two parents: the draws of
\* gen_range(1..range) are chosen, none is made on an empty range
RecombineCall ==
    /\ ~xo.called
    /\ \E draws \in (IF xo.n > 0 /\ Range(xo.parent1, xo.parent2) <= 1 THEN {<<>>}
                     ELSE PointSeqs(xo.n, Range(xo.parent1, xo.parent2))) :
         LET r == Recombine(xo.parent1, xo.parent2, xo.n, draws)
         IN xo' = [xo EXCEPT !.called = TRUE, !.draws = draws, !.panic = r.panic,
                             !.child = IF r.panic THEN <<>> ELSE r.child]
    /\ UNCHANGED <<engineVars, tour, pass, fill>>

NextRecombine == RecombineCall

SpecRecombine == InitRecombine /\ [][NextRecombine]_vars

(***************************************************************************)
(* BinaryBitMutation::mutate on its own: any chromosome, any offsets it    *)
(* draws, either build.                                                    *)
(***************************************************************************)
\* the offsets a pass over len bits draws.  The quotient is
\* ln(1 - rnd_val) / ln(1 - mutate_prob) in f32 with rnd_val in [0, 1), as
\* rand's gen::<f32>() returns it: the numerator is at least ln(2^-24), the
\* denominator is 0 or at least ln(1 - 2^-24) in size, so the quotient is
\* negative, not a number, or below 2.8e8: the cast gives a finite offset.
\* An offset of len or more ends the pass from any cursor, so the values
\* above len are drawn as len.
DrawnValues(len) == 0..len

InitMutate ==
    /\ EngineIdle
    /\ tour = [called |-> FALSE]
    /\ xo = [called |-> FALSE]
    /\ fill = [called |-> FALSE]
    /\ \E bits \in Parents, wraps \in BOOLEAN :
         pass = [called |-> FALSE, target |-> bits, wraps |-> wraps, offsets |-> <<>>,
                 bits |-> bits, flips |-> <<>>, overflow |-> "none", index |-> "ok"]

\* one call of mutate() on the target, its offsets chosen among offsetSeqs
MutatePass(offsetSeqs) ==
    /\ ~pass.called
    /\ \E offsets \in offsetSeqs :
         LET r == Mutate(pass.target, offsets, pass.wraps)
         IN pass' = [pass EXCEPT !.called = TRUE, !.offsets = offsets, !.bits = r.bits,
                                 !.flips = r.flips, !.overflow = r.overflow,
                                 !.index = r.index]
    /\ UNCHANGED <<engineVars, tour, xo, fill>>

\* the call of mutate() with the offsets it draws
MutateCall ==
    MutatePass(OffsetSeqs(Len(pass.target), DrawnValues(Len(pass.target))))

NextMutate == MutateCall

SpecMutate == InitMutate /\ [][NextMutate]_vars

(***************************************************************************)
(* One iteration of the loop of mutate (binary.rs:94-100) on its own: the  *)
(* cast, the addition and the test, for any cursor a pass can stand at and *)
(* any value of the types involved.  The value cast is an f32; described   *)
(* by its kind: not a number, negative, finite (with the whole number it   *)
(* truncates to), or huge: infinity or a value of 2^64 or more.  A pass of *)
(* mutate() itself draws no huge quotient (see DrawnValues); the huge kind *)
(* is the case the comment at binary.rs:92 provides for.                   *)
(***************************************************************************)
Quotients(len) ==
    {[kind |-> "nan"], [kind |-> "negative"], [kind |-> "huge"]}
      \cup {[kind |-> "finite", whole |-> k] : k \in 0..len}

\* `as usize` on an f32: truncates toward zero, gives 0 for a negative value
\* and for NaN, and saturates to usize::MAX for a value too big
CastToUsize(q) ==
    CASE q.kind = "nan" -> 0
      [] q.kind = "negative" -> 0
      [] q.kind = "finite" -> q.whole
      [] q.kind = "huge" -> Saturated

\* the body of the loop, once, from cursor i: `i += offset`, the test, the
\* flip and `i += 1`; stopped tells whether the pass ended in this iteration
LoopStep(bits, i, offset, wraps) ==
    LET sum == AddOffset(i, offset)
        overflow == IF ~Overflows(i, offset) THEN "none"
                    ELSE IF wraps THEN "wrap" ELSE "panic"
    IN IF overflow = "panic"
       THEN [bits |-> bits, cursor |-> i, overflow |-> overflow, index |-> "ok",
             stopped |-> TRUE]
       ELSE IF PastEnd(sum, Len(bits))
       THEN [bits |-> bits, cursor |-> sum, overflow |-> overflow, index |-> "ok",
             stopped |-> TRUE]
       ELSE IF sum >= Len(bits)
       THEN [bits |-> bits, cursor |-> sum, overflow |-> overflow, index |-> "bad",
             stopped |-> TRUE]
       ELSE [bits |-> FlipBit(bits, sum), cursor |-> AfterFlip(sum),
             overflow |-> overflow, index |-> "ok", stopped |-> FALSE]

\* the cursors a pass over len bits can stand at when an iteration begins:
\* 0, or one past a flipped bit
Cursors(len) == 0..len

InitMutateStep ==
    /\ EngineIdle
    /\ tour = [called |-> FALSE]
    /\ xo = [called |-> FALSE]
    /\ fill = [called |-> FALSE]
    /\ \E bits \in Parents, wraps \in BOOLEAN :
         \E i \in Cursors(Len(bits)) :
           pass = [called |-> FALSE, target |-> bits, wraps |-> wraps, from |-> i,
                   quotient |-> [kind |-> "nan"], offset |-> 0, bits |-> bits,
                   cursor |-> i, overflow |-> "none", index |-> "ok",
                   stopped |-> FALSE]

\* one iteration on the target from cursor pass.from, with the quotient cast
MutateStep ==
    /\ ~pass.called
    /\ \E q \in Quotients(Len(pass.target)) :
         LET offset == CastToUsize(q)
             r == LoopStep(pass.target, pass.from, offset, pass.wraps)
         IN pass' = [pass EXCEPT !.called = TRUE, !.quotient = q, !.offset = offset,
                                 !.bits = r.bits, !.cursor = r.cursor,
                                 !.overflow = r.overflow, !.index = r.index,
                                 !.stopped = r.stopped]
    /\ UNCHANGED <<engineVars, tour, xo, fill>>

NextMutateStep == MutateStep

SpecMutateStep == InitMutateStep /\ [][NextMutateStep]_vars

(***************************************************************************)
(* Population::populate on its own: any population, any size, any factory  *)
(* results.                                                                *)
(***************************************************************************)
\* the populations handed to populate: up to MaxSnap individuals of one-bit
\* chromosomes, evaluated or not
Populations ==
    UNION {[1..n -> BitStrings(1) \X {None, Some(ConfigEvaluate(<<TRUE>>))}] :
             n \in 0..MaxSnap}

\* the population of these chromosomes and fitnesses, instance k at position k
PopulationOf(members) ==
    [k \in 1..Len(members) |->
        [IndividualNew(k, members[k][1]) EXCEPT !.fitness = members[k][2]]]

InitPopulate ==
    /\ EngineIdle
    /\ tour = [called |-> FALSE]
    /\ xo = [called |-> FALSE]
    /\ pass = [called |-> FALSE]
    /\ \E members \in Populations, size \in 0..MaxSize :
         fill = [called |-> FALSE, individuals |-> PopulationOf(members), size |-> size,
                 chroms |-> <<>>, result |-> <<>>]

\* the call of populate(size, factory): the results of create() are chosen
PopulateCall ==
    /\ ~fill.called
    /\ \E chroms \in [1..PopulateCalls(fill.individuals, fill.size) -> BitStrings(1)] :
         fill' = [fill EXCEPT !.called = TRUE, !.chroms = chroms,
                    !.result = Populate(fill.individuals, fill.size, chroms,
                                        Len(fill.individuals))]
    /\ UNCHANGED <<engineVars, tour, xo, pass>>

NextPopulate == PopulateCall

SpecPopulate == InitPopulate /\ [][NextPopulate]_vars

(***************************************************************************)
(* Properties of the engine, checked under Spec                            *)
(***************************************************************************)
\* the individuals of an Option<Population>, as a set
Members(pop) ==
    IF pop = None THEN {} ELSE {Unwrap(pop)[k] : k \in 1..Len(Unwrap(pop))}

\* every individual the engine or a running breed() holds
Alive == Members(population) \cup Members(selector) \cup Members(Some(next_pop))

\* C1: in every run whose first call is start(), at every operation boundary
\* (no call is running) the engine holds a population of exactly pop_size
\* individuals, and no call has failed.
C1_SizeIsPopSize ==
    firstOp = "start" =>
        /\ pc # "failed"
        /\ pc = "idle" => IsSome(population) /\ Len(Unwrap(population)) = pop_size

\* a generation bred from a started engine is in place, pop_size at its largest
C1_Witness ==
    /\ firstOp = "start" /\ lastOp = "breed" /\ pc = "idle"
    /\ pop_size = MaxPop
    /\ IsSome(population) /\ Len(Unwrap(population)) = pop_size

\* C2: whatever the engine holds when start() is called, start() leaves it
\* with a population of exactly pop_size individuals, all of unknown fitness,
\* none of them an instance of the population held before the call.
C2_StartReplaces ==
    [][lastOp' = "start" =>
        /\ pc' = "idle"
        /\ IsSome(population')
        /\ Len(Unwrap(population')) = pop_size
        /\ \A x \in Members(population') : x.fitness = None
        /\ Ids(population') \cap Ids(population) = {}
        /\ Cardinality(Ids(population')) = pop_size]_vars

\* start() was called on an evaluated population and replaced it
C2_Witness ==
    /\ lastOp = "start" /\ prevOp = "evaluate"
    /\ pop_size > 0 /\ nextId > pop_size
    /\ IsSome(population) /\ Len(Unwrap(population)) = pop_size

\* C3: breed() on an engine that holds a population runs to its end and
\* installs a population of exactly pop_size new instances, all of unknown
\* fitness (a child cloned from an evaluated parent included); no instance of
\* the old generation is in it.
C3_BreedReplaces ==
    [][pc = "breeding" =>
        /\ pc' # "failed"
        /\ \A x \in Members(Some(next_pop')) : x.fitness = None
        /\ pc' = "idle" =>
             /\ IsSome(population')
             /\ Len(Unwrap(population')) = pop_size
             /\ Cardinality(Ids(population')) = pop_size
             /\ \A x \in Members(population') : x.fitness = None
             /\ Ids(population') \cap Ids(selector) = {}]_vars

\* breed() has returned and its latest child was an unmutated clone of an
\* evaluated parent
C3_Witness ==
    /\ pc = "idle" /\ lastOp = "breed" /\ pop_size > 0
    /\ prevOp = "evaluate" /\ lastChild = "clone"
    /\ \A x \in Members(population) : x.fitness = None

\* C4: the evaluation function is called at most once for an instance, an
\* evaluate() directly after an evaluate() calls it for none and changes no
\* individual, and a known fitness of an instance never changes.
C4_EvaluateMemoized ==
    /\ [](\A id \in DOMAIN evalCount : evalCount[id] <= 1)
    /\ [][(lastOp = "evaluate" /\ lastOp' = "evaluate") =>
            (population' = population /\ evalCount' = evalCount)]_vars
    /\ [][\A x \in Alive : \A y \in Alive' :
            (x.id = y.id /\ IsSome(x.fitness)) => y.fitness = x.fitness]_vars

\* evaluate() was called twice in a row on a population that is not empty
C4_Witness ==
    /\ lastOp = "evaluate" /\ prevOp = "evaluate" /\ pc = "idle"
    /\ pop_size > 0 /\ IsSome(population)
    /\ \A id \in Ids(population) : evalCount[id] = 1

\* C5: evaluate() on an engine that holds a population leaves every
\* individual with the known fitness config.evaluate gives its own
\* chromosome, and leaves the instances, their chromosomes, their order and
\* their number as they were.
C5_EvaluateFillsFitness ==
    [][(lastOp' = "evaluate" /\ IsSome(population)) =>
        /\ IsSome(population')
        /\ Len(Unwrap(population')) = Len(Unwrap(population))
        /\ \A k \in 1..Len(Unwrap(population)) :
             /\ Unwrap(population')[k].id = Unwrap(population)[k].id
             /\ Unwrap(population')[k].chromosome = Unwrap(population)[k].chromosome
             /\ Unwrap(population')[k].fitness
                  = Some(ConfigEvaluate(Unwrap(population)[k].chromosome))]_vars

\* a bred generation of two individuals of different fitness has been evaluated
C5_Witness ==
    /\ lastOp = "evaluate" /\ prevOp = "breed" /\ pc = "idle"
    /\ IsSome(population) /\ Len(Unwrap(population)) = 2
    /\ \A x \in Members(population) : IsSome(x.fitness)
    /\ Unwrap(population)[1].fitness # Unwrap(population)[2].fitness

\* C6: breed() on an engine that holds no population fails at once: it builds
\* no selector, creates no individual and leaves the engine without a
\* population.
C6_BreedBeforeStartFails ==
    [][(pc = "idle" /\ population = None /\ lastOp' = "breed" /\ prevOp' = lastOp) =>
        /\ pc' = "failed"
        /\ population' = None
        /\ selector' = None
        /\ next_pop' = <<>>
        /\ nextId' = nextId]_vars

\* breed() was the call that failed, on an engine never started
C6_Witness ==
    /\ pc = "failed" /\ lastOp = "breed"
    /\ population = None /\ selector = None /\ nextId = 0

(***************************************************************************)
(* Properties of select(), checked under SpecSelect                        *)
(***************************************************************************)
\* the fitness of the individual a draw or a result refers to
FitnessAt(index) == tour.individuals[index + 1].fitness

\* the order of Option<f32>, stated on its own: unknown below every known
\* fitness, known fitnesses by value
Below(a, b) ==
    \/ a = None /\ b # None
    \/ a # None /\ b # None /\ FitGreater(Unwrap(b), Unwrap(a))

\* select() has returned from a tournament of at least one sample
Selected == tour.called /\ ~tour.panic /\ tour.group_size >= 1

\* C7: select() with group size g >= 1 on a snapshot that is not empty returns
\* one of the g sampled individuals, none of the sampled is fitter than it,
\* and of the sampled individuals that share its fitness it is the one
\* sampled first.
C7_SelectReturnsFirstBest ==
    (tour.called /\ tour.group_size >= 1 /\ Len(tour.individuals) >= 1) =>
        /\ ~tour.panic
        /\ Len(tour.draws) = tour.group_size
        /\ \E k \in 1..Len(tour.draws) : tour.draws[k] = tour.index
        /\ \A k \in 1..Len(tour.draws) :
             ~Below(FitnessAt(tour.index), FitnessAt(tour.draws[k]))
        /\ LET ties == {k \in 1..Len(tour.draws) :
                          /\ ~Below(FitnessAt(tour.draws[k]), FitnessAt(tour.index))
                          /\ ~Below(FitnessAt(tour.index), FitnessAt(tour.draws[k]))}
           IN \A k \in ties : (\A j \in ties : k <= j) => tour.draws[k] = tour.index

\* the first sample was beaten, and two different individuals sampled after
\* it share the greatest fitness: the earlier of the two is returned
C7_Witness ==
    /\ Selected /\ tour.group_size = 3
    /\ Below(FitnessAt(tour.draws[1]), FitnessAt(tour.draws[2]))
    /\ tour.draws[2] # tour.draws[3]
    /\ FitnessAt(tour.draws[2]) = FitnessAt(tour.draws[3])
    /\ IsSome(FitnessAt(tour.draws[2]))
    /\ tour.index = tour.draws[2]

\* C8: in a tournament a sample of unknown fitness never replaces a best of
\* known fitness, a sample of known fitness always replaces a best of unknown
\* fitness, and a sample of unknown fitness never replaces a best of unknown
\* fitness; so on a snapshot with no known fitness select() returns the first
\* sample.
C8_UnknownNeverWins ==
    (tour.called /\ ~tour.panic) =>
        /\ \A k \in 2..Len(tour.bests) :
             LET best == tour.bests[k - 1]
                 other == tour.draws[k]
             IN /\ (FitnessAt(other) = None /\ FitnessAt(best) # None)
                      => tour.bests[k] = best
                /\ (FitnessAt(other) # None /\ FitnessAt(best) = None)
                      => tour.bests[k] = other
                /\ (FitnessAt(other) = None /\ FitnessAt(best) = None)
                      => tour.bests[k] = best
        /\ (\A x \in 1..Len(tour.individuals) : tour.individuals[x].fitness = None)
             => tour.index = tour.draws[1]

\* an unknown first sample lost to a known second one, which an unknown third
\* one did not replace
C8_Witness ==
    /\ Selected /\ tour.group_size = 3
    /\ FitnessAt(tour.draws[1]) = None
    /\ FitnessAt(tour.draws[2]) # None
    /\ FitnessAt(tour.draws[3]) = None
    /\ tour.draws[3] # tour.draws[1]
    /\ tour.index = tour.draws[2]

\* a tournament as large as its snapshot, every fitness known, one
\* individual fitter than all the others
FullTournament ==
    /\ Selected
    /\ tour.group_size = Len(tour.individuals)
    /\ \A x \in 1..Len(tour.individuals) : tour.individuals[x].fitness # None

Fittest(f) ==
    \A x \in 0..(Len(tour.individuals) - 1) :
        x # f => Below(FitnessAt(x), FitnessAt(f))

\* C9 as claimed: with the group size equal to the population size, select()
\* on a fully evaluated population returns the single fittest individual
\* whatever the draws are.
C9_AlwaysFittest ==
    FullTournament =>
        \A f \in 0..(Len(tour.individuals) - 1) : Fittest(f) => tour.index = f

\* C9: with the group size equal to the population size, select() on a fully
\* evaluated population returns the single fittest individual whenever the
\* draws sample it, and always an individual no sampled one is fitter than.
C9_FittestWhenSampled ==
    FullTournament =>
        /\ \A f \in 0..(Len(tour.individuals) - 1) :
             (Fittest(f) /\ \E k \in 1..Len(tour.draws) : tour.draws[k] = f)
                => tour.index = f
        /\ \A k \in 1..Len(tour.draws) :
             ~Below(FitnessAt(tour.index), FitnessAt(tour.draws[k]))

\* every individual of a snapshot of three was sampled, the fittest last
C9_Witness ==
    /\ FullTournament /\ tour.group_size = 3
    /\ {tour.draws[k] : k \in 1..3} = 0..2
    /\ Fittest(tour.draws[3])
    /\ tour.index = tour.draws[3]

(***************************************************************************)
(* Properties of recombine(), checked under SpecRecombine                  *)
(***************************************************************************)
\* C10: recombine returns a child as long as parent 1, for every point count
\* and every two parents of at least 2 bits, of equal or different lengths.
C10_ChildHasLengthOfParent1 ==
    (xo.called /\ Len(xo.parent1) >= 2 /\ Len(xo.parent2) >= 2) =>
        /\ ~xo.panic
        /\ Len(xo.child) = Len(xo.parent1)

\* whether 0-based index j lies in one of the segments
\* [points[2k], points[2k + 1]) of a 0-based point list
InSegments(j, points) ==
    \E k \in 0..((Len(points) \div 2) - 1) :
        points[2 * k + 1] <= j /\ j < points[2 * k + 2]

\* the total length of those segments, from pair k on
RECURSIVE SegmentsLength(_, _)
SegmentsLength(points, k) ==
    IF k >= Len(points) \div 2 THEN 0
    ELSE Max(0, points[2 * k + 2] - points[2 * k + 1]) + SegmentsLength(points, k + 1)

AllBits(bits, value) == \A k \in 1..Len(bits) : bits[k] = value

\* C11: for parents of equal length and any drawn points, the child has bit j
\* of parent 2 exactly when j lies in a segment [points[2k], points[2k + 1])
\* of the sorted point list (padded with the length for odd n) and bit j of
\* parent 1 otherwise; bit 0 is parent 1's; the child of all zeros and all
\* ones has as many ones as the segments are long, between 0 and the length.
C11_ChildAlternates ==
    (xo.called /\ ~xo.panic /\ Len(xo.parent1) = Len(xo.parent2)) =>
        LET points == Points(xo.parent1, xo.n, xo.draws)
            len == Len(xo.parent1)
        IN /\ \A a \in 1..Len(points) : \A b \in a..Len(points) : points[a] <= points[b]
           /\ Len(points) % 2 = 0
           /\ Len(xo.child) = len
           /\ \A j \in 0..(len - 1) :
                xo.child[j + 1] = IF InSegments(j, points) THEN xo.parent2[j + 1]
                                  ELSE xo.parent1[j + 1]
           /\ len > 0 => xo.child[1] = xo.parent1[1]
           /\ (AllBits(xo.parent1, FALSE) /\ AllBits(xo.parent2, TRUE)) =>
                /\ Ones(xo.child) = SegmentsLength(points, 0)
                /\ Ones(xo.child) \in 0..len

\* three points on all zeros and all ones of three bits: the segments
\* [1, 2) and [2, 3) come from parent 2, bit 0 from parent 1
C11_Witness ==
    /\ xo.called /\ ~xo.panic /\ xo.n = 3
    /\ Len(xo.parent1) = 3 /\ Len(xo.parent2) = 3
    /\ AllBits(xo.parent1, FALSE) /\ AllBits(xo.parent2, TRUE)
    /\ Points(xo.parent1, xo.n, xo.draws) = <<1, 2, 2, 3>>
    /\ xo.child = <<FALSE, TRUE, TRUE>>

(***************************************************************************)
(* Properties of populate(), checked under SpecPopulate                    *)
(***************************************************************************)
\* C13: populate(size, factory) leaves the population with the larger of
\* its old size and size individuals; on a population of at least size
\* individuals it calls the factory for none and changes nothing; it removes
\* no individual, and every individual present before the call keeps its
\* position, its chromosome and its fitness.
C13_PopulateFillsUp ==
    fill.called =>
        /\ Len(fill.result) = Max(Len(fill.individuals), fill.size)
        /\ Len(fill.individuals) >= fill.size =>
             (fill.result = fill.individuals /\ fill.chroms = <<>>)
        /\ Len(fill.result) >= Len(fill.individuals)
        /\ \A k \in 1..Len(fill.individuals) : fill.result[k] = fill.individuals[k]
        /\ \A k \in (Len(fill.individuals) + 1)..Len(fill.result) :
             /\ fill.result[k].fitness = None
             /\ fill.result[k].chromosome = fill.chroms[k - Len(fill.individuals)]
             /\ fill.result[k].id \notin IdsOf(fill.individuals)

\* populate was called with a size below that of an evaluated population of
\* three and left it alone
C13_Witness ==
    /\ fill.called /\ Len(fill.individuals) = 3 /\ fill.size = 1
    /\ \A k \in 1..3 : IsSome(fill.individuals[k].fitness)
    /\ fill.result = fill.individuals

(***************************************************************************)
(* Properties of the engine on an empty population, checked under Spec     *)
(***************************************************************************)
\* breed() is at work on an empty population (pop_size = 0 after start())
BreedingEmpty == pc = "breeding" /\ selector = Some(WithCapacity)

\* C14 as claimed: breed() on an empty population (an engine of pop_size 0
\* after start()) ends in a failure and never returns with a new population.
C14_EmptyBreedFails ==
    (firstOp = "start" /\ pop_size = 0 /\ lastOp = "breed") => pc # "idle"

\* C14: breed() on an empty population (an engine of pop_size 0 after
\* start()) does not fail: it takes the population, selects and creates no
\* individual, and returns with a new, empty population.
C14_EmptyBreedReturnsEmpty ==
    /\ [][(pc = "idle" /\ population = Some(WithCapacity) /\ lastOp' = "breed") =>
            (pc' = "breeding" /\ selector' = Some(WithCapacity))]_vars
    /\ [][BreedingEmpty =>
            /\ pop_size = 0
            /\ pc' = "idle"
            /\ population' = Some(WithCapacity)
            /\ nextId' = nextId]_vars

\* breed() has returned on an engine of pop_size 0 that was started
C14_Witness ==
    /\ firstOp = "start" /\ pop_size = 0 /\ lastOp = "breed" /\ prevOp = "evaluate"
    /\ pc = "idle" /\ population = Some(WithCapacity)

(***************************************************************************)
(* Properties of select() with group size 0, checked under SpecSelect      *)
(***************************************************************************)
\* C15 as claimed: select() on a selector of group size 0 ends in a failure
\* and returns no individual.
C15_ZeroGroupFails ==
    (tour.called /\ tour.group_size = 0) => tour.panic

\* C15: select() on a selector of group size 0 does not fail on a population
\* that is not empty: it samples one individual, compares it with no other
\* and returns it, as a selector of group size 1 does.
C15_ZeroGroupReturnsFirst ==
    (tour.called /\ tour.group_size = 0) =>
        /\ tour.panic <=> Len(tour.individuals) = 0
        /\ ~tour.panic =>
             /\ Len(tour.draws) = 1
             /\ tour.bests = <<tour.draws[1]>>
             /\ tour.index = tour.draws[1]

\* a selector of group size 0 returned its one sample, which is not the
\* fittest of the three evaluated individuals
C15_Witness ==
    /\ tour.called /\ ~tour.panic /\ tour.group_size = 0
    /\ Len(tour.individuals) = 3
    /\ \A x \in 1..3 : tour.individuals[x].fitness # None
    /\ tour.index = tour.draws[1]
    /\ \E x \in 0..2 : Below(FitnessAt(tour.index), FitnessAt(x))

(***************************************************************************)
(* Properties of recombine() on empty parents, checked under SpecRecombine *)
(***************************************************************************)
\* recombine was called on two chromosomes of no bits
EmptyParents == xo.called /\ Len(xo.parent1) = 0 /\ Len(xo.parent2) = 0

\* C16 as claimed: recombine on two chromosomes of no bits ends in a failure
\* and returns no child, for every point count n, 0 included.
C16_ZeroLengthFails ==
    EmptyParents => xo.panic

\* C16: recombine on two chromosomes of no bits ends in a failure for every
\* point count n >= 1, where it draws a point from the empty range 1..0; for
\* n = 0 it draws no point and returns a child of no bits.
C16_ZeroLengthFailsAtFirstPoint ==
    EmptyParents =>
        /\ xo.panic <=> xo.n >= 1
        /\ xo.n = 0 => (xo.draws = <<>> /\ xo.child = <<>>)

\* recombine with no points returned the empty clone of an empty parent 1
C16_Witness ==
    /\ EmptyParents /\ xo.n = 0 /\ ~xo.panic /\ xo.child = <<>>

(***************************************************************************)
(* Properties of breed() and its old generation, checked under Spec        *)
(***************************************************************************)
\* the chromosomes of a sequence of individuals
ChromosomesOf(individuals) == {individuals[k].chromosome : k \in 1..Len(individuals)}

\* C17: breed() hands the population it takes to the selector as it is, and
\* while it builds the next generation no individual of that snapshot
\* changes: not its place, its chromosome or its fitness, whatever children
\* are cloned, recombined and mutated from it.
C17_OldGenerationUntouched ==
    /\ [][(pc = "idle" /\ pc' = "breeding") => selector' = population]_vars
    /\ [][(pc = "breeding" /\ pc' = "breeding") => selector' = selector]_vars

\* breed() has made, from an evaluated snapshot, a child whose chromosome is
\* that of no parent
C17_Witness ==
    /\ pc = "breeding" /\ prevOp = "evaluate" /\ lastChild = "made"
    /\ Len(next_pop) = MaxPop
    /\ \A x \in Members(selector) : IsSome(x.fitness)
    /\ next_pop[Len(next_pop)].chromosome \notin ChromosomesOf(Unwrap(selector))


Flipped == {pass.flips[k] : k \in 1..Len(pass.flips)}

\* C18: in one mutate pass over a chromosome of L bits the flipped indices
\* are strictly increasing and all below L, so no bit is flipped twice and at
\* most L flips happen; a bit that was not chosen keeps its value, a chosen
\* one is inverted, and the chromosome keeps its length.
C18_FlipsStrictlyIncrease ==
    pass.called =>
        /\ \A k \in 1..(Len(pass.flips) - 1) : pass.flips[k] < pass.flips[k + 1]
        /\ \A k \in 1..Len(pass.flips) : pass.flips[k] \in 0..(Len(pass.target) - 1)
        /\ Len(pass.flips) <= Len(pass.target)
        /\ Len(pass.bits) = Len(pass.target)
        /\ \A j \in 0..(Len(pass.target) - 1) :
             pass.bits[j + 1] = IF j \in Flipped THEN ~pass.target[j + 1]
                                ELSE pass.target[j + 1]

\* a pass over three bits flipped bits 0 and 2 and passed over bit 1
C18_Witness ==
    /\ pass.called /\ Len(pass.target) = 3
    /\ pass.offsets = <<0, 1, 0>>
    /\ pass.flips = <<0, 2>>
    /\ pass.bits[2] = pass.target[2]
    /\ pass.bits[1] # pass.target[1] /\ pass.bits[3] # pass.target[3]

(***************************************************************************)
(* Properties of evaluate() in the generation loop, checked under Spec     *)
(***************************************************************************)
\* C19: an evaluate() that follows start() or breed() directly, as each one
\* of a run start(); (evaluate(); breed())^k; evaluate() does, calls the
\* evaluation function exactly pop_size times, once for each individual of
\* the population: none of them comes with a fitness, a child cloned
\* unchanged from an evaluated parent included.
C19_EvaluatesWholeGeneration ==
    [][((lastOp = "start" \/ lastOp = "breed") /\ lastOp' = "evaluate") =>
        /\ IsSome(population)
        /\ Len(Unwrap(population)) = pop_size
        /\ Cardinality(Ids(population)) = pop_size
        /\ DOMAIN evalCount' = Ids(population)
        /\ \A id \in Ids(population) : evalCount[id] = 0 /\ evalCount'[id] = 1]_vars

\* a generation bred from an evaluated one, its latest child an unchanged
\* clone of a parent, has been evaluated: one call for each individual
C19_Witness ==
    /\ firstOp = "start" /\ lastOp = "evaluate" /\ prevOp = "breed" /\ pc = "idle"
    /\ lastChild = "clone" /\ pop_size = MaxPop
    /\ nextId >= 2 * pop_size
    /\ \A id \in Ids(population) : evalCount[id] = 1
    /\ \A x \in Members(population) : IsSome(x.fitness)

\* C20: evaluate() on an engine that holds no population (never started)
\* returns and does nothing: no call of the evaluation function, no
\* individual created, the engine still without a population; breed() in the
\* same state fails.
C20_EvaluateBeforeStartIsNoOp ==
    /\ [][(pc = "idle" /\ population = None /\ lastOp' = "evaluate") =>
            /\ pc' = "idle"
            /\ population' = None
            /\ evalCount' = evalCount
            /\ nextId' = nextId
            /\ selector' = selector /\ next_pop' = next_pop]_vars
    /\ [][(pc = "idle" /\ population = None /\ lastOp' = "breed") => pc' = "failed"]_vars

\* evaluate() was called twice on an engine never started, which is still
\* as constructed
C20_Witness ==
    /\ firstOp = "evaluate" /\ lastOp = "evaluate" /\ prevOp = "evaluate"
    /\ pc = "idle" /\ population = None /\ nextId = 0
    /\ pop_size = MaxPop /\ DOMAIN evalCount = {}
====
